---- MODULE Spec2Model ----
(***************************************************************************)
(* Fruit & Gas Cloud API (src/server.py): the in-memory cache LAST, the    *)
(* SQLite table gas_readings, and the handlers /predict, /gas,             *)
(* /cron/snapshot, /history and /summary, as a state machine.              *)
(*                                                                         *)
(* Representation.                                                         *)
(*   Optional values: None is the empty sequence, a present value v is     *)
(*   <<v>>.                                                                *)
(*   Strings that the code inspects (class labels, string payloads) are    *)
(*   sequences of one-character strings.                                   *)
(*   Floats are exact decimals <<n, d, e>> = (n/d) * 10^e, kept in         *)
(*   canonical form (gcd(n,d) = 1, d <= |n| < 10*d, zero = <<0,1,0>>).     *)
(*   ppm values are held in tenths (round(x, 1) * 10).                     *)
(*   Confidences are held in units of 1e-4.                                *)
(***************************************************************************)
EXTENDS Integers, Sequences, FiniteSets, TLC

None == <<>>
Some(v) == <<v>>
IsNone(o) == o = <<>>
Val(o) == o[1]

Abs(i) == IF i < 0 THEN -i ELSE i

RECURSIVE Gcd(_, _)
Gcd(a, b) == IF b = 0 THEN a ELSE Gcd(b, a % b)

(***************************************************************************)
(* Exact decimal arithmetic standing for Python float arithmetic.          *)
(***************************************************************************)
Zero == <<0, 1, 0>>

RECURSIVE Norm(_, _, _)
Norm(n, d, e) ==
    IF n = 0 THEN Zero
    ELSE IF Abs(n) >= 10 * d THEN
        (IF n % 10 = 0 THEN Norm(n \div 10, d, e + 1) ELSE Norm(n, d * 10, e + 1))
    ELSE IF Abs(n) < d THEN
        (IF d % 10 = 0 THEN Norm(n, d \div 10, e - 1) ELSE Norm(n * 10, d, e - 1))
    ELSE LET g == Gcd(Abs(n), d) IN <<n \div g, d \div g, e>>

\* m * 10^e
Dec(m, e) == Norm(m, 1, e)

Pow10(k) == CASE k = 0 -> 1 [] k = 1 -> 10 [] k = 2 -> 100 [] k = 3 -> 1000
              [] k = 4 -> 10000 [] k = 5 -> 100000 [] k = 6 -> 1000000

Mul(a, b) ==
    LET g1 == Gcd(Abs(a[1]), b[2])
        g2 == Gcd(Abs(b[1]), a[2])
    IN  Norm((a[1] \div g1) * (b[1] \div g2), (a[2] \div g2) * (b[2] \div g1), a[3] + b[3])

\* 1 / a, a # 0
Inv(a) == IF a[1] < 0 THEN Norm(-a[2], -a[1], -a[3]) ELSE Norm(a[2], a[1], -a[3])

Div(a, b) == Mul(a, Inv(b))

\* a - b
Sub(a, b) ==
    IF b = Zero THEN a
    ELSE IF a = Zero THEN <<-b[1], b[2], b[3]>>
    ELSE LET e  == IF a[3] < b[3] THEN a[3] ELSE b[3]
             an == a[1] * Pow10(a[3] - e)
             bn == b[1] * Pow10(b[3] - e)
         IN  Norm(an * b[2] - bn * a[2], a[2] * b[2], e)

Sign(a) == IF a[1] > 0 THEN 1 ELSE IF a[1] < 0 THEN -1 ELSE 0

\* a < b on positive canonical decimals
PosLess(a, b) == \/ a[3] < b[3]
                 \/ a[3] = b[3] /\ a[1] * b[2] < b[1] * a[2]

Less(a, b) ==
    IF Sign(a) # Sign(b) THEN Sign(a) < Sign(b)
    ELSE IF Sign(a) = 0 THEN FALSE
    ELSE IF Sign(a) > 0 THEN PosLess(a, b)
    ELSE PosLess(<<-b[1], b[2], b[3]>>, <<-a[1], a[2], a[3]>>)

Leq(a, b) == a = b \/ Less(a, b)

\* Python max(a, b): b only when b > a
FMax(a, b) == IF Less(a, b) THEN b ELSE a

(***************************************************************************)
(* Gas model: GasReading (lines 151-158) and the conversion in gas()       *)
(* (lines 171-196).                                                        *)
(***************************************************************************)
ADC_MAX_DEFAULT == 4095
VREF_DEFAULT == Dec(33, -1)
RL_DEFAULT == Dec(1, 4)
VRL_FLOOR == Dec(1, -3)
R0_FLOOR == Dec(1, -6)

\* GasReading with every field omitted: the declared defaults
GasReading == [vrl |-> None, adc |-> None, adc_max |-> Some(ADC_MAX_DEFAULT),
               vref |-> Some(VREF_DEFAULT), rl |-> Some(RL_DEFAULT),
               rs |-> None, r0 |-> None]

Gases == {"co2", "nh3", "benzene", "alcohol"}

\* round(a * ratio ** b, 1) in tenths for the four curves of lines 191-194
\* (a, b) = (116.6021, -2.7690), (102.6940, -2.4880), (76.63, -2.1680),
\* (77.255, -3.18), tabulated from CPython's float arithmetic for ratio > 0.
PowerLawTable ==
   <<5, 2, -1>> :> <<54176, 32320, 15476, 63457>> @@  \* ratio 0.25
   <<5, 1, -1>> :> <<7948, 5761, 3444, 7002>> @@      \* ratio 0.5
   <<15, 2, -1>> :> <<2586, 2101, 1430, 1929>> @@     \* ratio 0.75
   <<1, 1, 0>> :> <<1166, 1027, 766, 773>> @@         \* ratio 1
   <<2, 1, 0>> :> <<171, 183, 171, 85>> @@            \* ratio 2
   <<3, 1, 0>> :> <<56, 67, 71, 23>> @@               \* ratio 3
   <<4, 1, 0>> :> <<25, 33, 38, 9>> @@                \* ratio 4
   <<8, 1, 0>> :> <<4, 6, 8, 1>> @@                   \* ratio 8
   <<5, 2, 3>> :> <<0, 0, 0, 0>> @@                   \* ratio 2500
   <<1, 1, 4>> :> <<0, 0, 0, 0>> @@                   \* ratio 10000
   <<2, 1, 4>> :> <<0, 0, 0, 0>> @@                   \* ratio 20000
   <<1, 1, 6>> :> <<0, 0, 0, 0>> @@                   \* ratio 1e6
   <<4, 1, 6>> :> <<0, 0, 0, 0>> @@                   \* ratio 4e6
   <<33, 10, 7>> :> <<0, 0, 0, 0>> @@                 \* ratio 3.3e7
   <<1, 1, 10>> :> <<0, 0, 0, 0>> @@                  \* ratio 1e10
   <<33, 10, 13>> :> <<0, 0, 0, 0>>                   \* ratio 3.3e13

\* ratio ** -3.18 (line 194) raises OverflowError once the power leaves the
\* float range, which it does for every 0 < ratio < 1e-97
PowOverflows(ratio) == Sign(ratio) > 0 /\ ratio[3] <= -98

CurveIndex == [co2 |-> 1, nh3 |-> 2, benzene |-> 3, alcohol |-> 4]

PowerLaw(ratio, curve) == PowerLawTable[ratio][CurveIndex[curve]]

IMax(a, b) == IF b > a THEN b ELSE a

\* a guard that answers -1 for a ratio it cannot use
_ppm_from_ratio_sentinel(ratio, curve) ==
    IF Leq(ratio, Zero) THEN -1
    ELSE IMax(0, PowerLaw(ratio, curve))

\* _ppm_from_ratio followed by round(., 1), in tenths; curve names (a, b)
_ppm_from_ratio(ratio, curve) ==
    IF Leq(ratio, Zero) THEN 0
    ELSE IMax(0, PowerLaw(ratio, curve))

\* x or default, for a float field
OrFloat(o, dflt) == IF IsNone(o) \/ Val(o) = Zero THEN dflt ELSE Val(o)
\* x or default, for an int field
OrInt(o, dflt) == IF IsNone(o) \/ Val(o) = 0 THEN dflt ELSE Val(o)

VREF(g) == OrFloat(g.vref, VREF_DEFAULT)
RL(g) == OrFloat(g.rl, RL_DEFAULT)

\* a conversion that lets the ADC count override a supplied voltage
ResolveVrl_adc_first(g) ==
    IF ~IsNone(g.adc)
    THEN Some(Mul(Div(Dec(Val(g.adc), 0), Dec(OrInt(g.adc_max, ADC_MAX_DEFAULT), 0)), VREF(g)))
    ELSE g.vrl

\* lines 174-176: g.vrl after the ADC conversion
ResolveVrl(g) ==
    IF IsNone(g.vrl) /\ ~IsNone(g.adc)
    THEN Some(Mul(Div(Dec(Val(g.adc), 0), Dec(OrInt(g.adc_max, ADC_MAX_DEFAULT), 0)), VREF(g)))
    ELSE g.vrl

\* line 178
Unusable(g) == IsNone(ResolveVrl(g)) /\ IsNone(g.rs)

\* line 181
SensorRs(g) ==
    IF ~IsNone(g.rs) THEN Val(g.rs)
    ELSE Div(Mul(Sub(VREF(g), Val(ResolveVrl(g))), RL(g)), FMax(VRL_FLOOR, Val(ResolveVrl(g))))

\* line 182
BaselineR0(g) == IF ~IsNone(g.r0) THEN Val(g.r0) ELSE SensorRs(g)

\* line 183
Ratio(g) == Div(SensorRs(g), FMax(R0_FLOOR, BaselineR0(g)))

\* lines 185-196: data["ppm"]
PpmOf(ratio) == [c \in Gases |-> Some(_ppm_from_ratio(ratio, c))]

\* the outcome of lines 171-196: "invalid" (line 179), "overflow" (an
\* OverflowError out of ratio ** b), or the computed reading
Convert(g) ==
    IF Unusable(g) THEN [k |-> "invalid"]
    ELSE IF PowOverflows(Ratio(g)) THEN [k |-> "overflow"]
    ELSE [k |-> "ok", rs |-> SensorRs(g), r0 |-> BaselineR0(g),
          ratio |-> Ratio(g), ppm |-> PpmOf(Ratio(g))]

(***************************************************************************)
(* JSON values, as resp.json() yields them (line 134).  An object is a     *)
(* record of its keys (never empty here); numbers carry an integer n:      *)
(* a confidence is n * 1e-4.                                               *)
(***************************************************************************)
JNull == [k |-> "null"]
JNum(n) == [k |-> "num", n |-> n]
JStr(s) == [k |-> "str", s |-> s]
JList(items) == [k |-> "list", items |-> items]
JObj(f) == [k |-> "obj", f |-> f]

\* Python truthiness: not v
Falsy(v) ==
    CASE v.k = "null" -> TRUE
      [] v.k = "num" -> v.n = 0
      [] v.k = "str" -> v.s = <<>>
      [] v.k = "list" -> v.items = <<>>
      [] v.k = "obj" -> DOMAIN v.f = {}

\* sub in s, on strings
Contains(s, sub) ==
    \E i \in 0..(Len(s) - Len(sub)) : SubSeq(s, i + 1, i + Len(sub)) = sub

UpperToLower ==
    [A |-> "a", B |-> "b", C |-> "c", D |-> "d", E |-> "e", F |-> "f", G |-> "g",
     H |-> "h", I |-> "i", J |-> "j", K |-> "k", L |-> "l", M |-> "m", N |-> "n",
     O |-> "o", P |-> "p", Q |-> "q", R |-> "r", S |-> "s", T |-> "t", U |-> "u",
     V |-> "v", W |-> "w", X |-> "x", Y |-> "y", Z |-> "z"]

\* a comparison that does not fold case
Lower_unfolded(s) == s

\* str.lower()
Lower(s) == [i \in 1..Len(s) |-> IF s[i] \in DOMAIN UpperToLower THEN UpperToLower[s[i]] ELSE s[i]]

PREDICTIONS == <<"p", "r", "e", "d", "i", "c", "t", "i", "o", "n", "s">>
ROTTEN == <<"r", "o", "t", "t", "e", "n">>
QUESTION == <<"?">>

\* "predictions" in v; "raise" is the TypeError of a non-iterable
HasPredictions(v) ==
    CASE v.k = "obj" -> IF "predictions" \in DOMAIN v.f THEN "yes" ELSE "no"
      [] v.k = "list" -> IF \E i \in 1..Len(v.items) : v.items[i] = JStr(PREDICTIONS)
                         THEN "yes" ELSE "no"
      [] v.k = "str" -> IF Contains(v.s, PREDICTIONS) THEN "yes" ELSE "no"
      [] v.k = "num" -> "raise"

DigitVal == [c \in {"0", "1", "2", "3", "4", "5", "6", "7", "8", "9"} |->
               CASE c = "0" -> 0 [] c = "1" -> 1 [] c = "2" -> 2 [] c = "3" -> 3
                 [] c = "4" -> 4 [] c = "5" -> 5 [] c = "6" -> 6 [] c = "7" -> 7
                 [] c = "8" -> 8 [] c = "9" -> 9]

RECURSIVE DigitsValue(_)
DigitsValue(s) == IF s = <<>> THEN 0
                  ELSE 10 * DigitsValue(SubSeq(s, 1, Len(s) - 1)) + DigitVal[s[Len(s)]]

\* float(s) for a string s, in units of 1e-4: None is the ValueError.
\* Covers the spellings digits[.digits] with at most four decimals.
ParseFloat(s) ==
    LET dots == {i \in 1..Len(s) : s[i] = "."}
        digs == {i \in 1..Len(s) : s[i] \in DOMAIN DigitVal}
    IN  IF digs = {} \/ Cardinality(dots) > 1 \/ dots \cup digs # 1..Len(s) THEN None
        ELSE IF dots = {} THEN Some(DigitsValue(s) * Pow10(4))
        ELSE LET d == CHOOSE i \in dots : TRUE
                 frac == SubSeq(s, d + 1, Len(s))
             IN  IF Len(frac) > 4 THEN None
                 ELSE Some(DigitsValue(SubSeq(s, 1, d - 1)) * Pow10(4)
                           + DigitsValue(frac) * Pow10(4 - Len(frac)))

\* float(p.get("confidence", 0.0)) for a prediction entry p, in units of
\* 1e-4: None when it raises (p has no .get, or float() rejects the value)
ConfidenceKey(p) ==
    IF p.k # "obj" THEN None
    ELSE IF "confidence" \notin DOMAIN p.f THEN Some(0)
    ELSE LET c == p.f.confidence
         IN  CASE c.k = "num" -> Some(c.n)
               [] c.k = "str" -> ParseFloat(c.s)
               [] OTHER -> None

\* a maximum that lets a later entry of equal key win
RECURSIVE MaxFrom_last(_, _, _)
MaxFrom_last(preds, i, best) ==
    IF i > Len(preds) THEN best
    ELSE IF Val(ConfidenceKey(preds[i])) >= Val(ConfidenceKey(preds[best]))
         THEN MaxFrom_last(preds, i + 1, i)
         ELSE MaxFrom_last(preds, i + 1, best)

\* max(preds, key=...): the index of the first entry whose key is maximal
RECURSIVE MaxFrom(_, _, _)
MaxFrom(preds, i, best) ==
    IF i > Len(preds) THEN best
    ELSE IF Val(ConfidenceKey(preds[i])) > Val(ConfidenceKey(preds[best]))
         THEN MaxFrom(preds, i + 1, i)
         ELSE MaxFrom(preds, i + 1, best)

PyMax(preds) == MaxFrom(preds, 2, 1)

\* round(n * 1e-4 * 100.0, 1) in tenths of a percent (ties to even)
RoundPercent(n) ==
    LET q == n \div 10
        r == n % 10
    IN  IF r > 5 \/ (r = 5 /\ q % 2 = 1) THEN q + 1 ELSE q

\* str(top.get("class", "?"))
ClassLabel(p) ==
    IF "class" \notin DOMAIN p.f THEN QUESTION
    ELSE CASE p.f.class.k = "str" -> p.f.class.s
           [] p.f.class.k = "null" -> <<"N", "o", "n", "e">>

NoDetection == [k |-> "none"]
Raised == [k |-> "raise"]

\* extract_top_detection(resp_obj); resp_obj is LAST["vision"], None or a
\* JSON value
extract_top_detection(resp_obj) ==
    IF IsNone(resp_obj) \/ Falsy(Val(resp_obj)) THEN NoDetection
    ELSE LET v == Val(resp_obj) IN
         IF HasPredictions(v) = "raise" THEN Raised
         ELSE IF HasPredictions(v) = "no" THEN NoDetection
         ELSE IF v.k # "obj" THEN Raised               \* no .get on a list or str
         ELSE LET preds == v.f.predictions IN
              IF Falsy(preds) \/ preds.k # "list" THEN NoDetection
              ELSE IF \E i \in 1..Len(preds.items) : IsNone(ConfidenceKey(preds.items[i]))
                   THEN Raised
              ELSE LET top == preds.items[PyMax(preds.items)]
                   IN  [k |-> "pred", label |-> ClassLabel(top),
                        confidence |-> RoundPercent(Val(ConfidenceKey(top)))]

(***************************************************************************)
(* Summary (lines 215-238).  last is a LAST-shaped record.                 *)
(***************************************************************************)
CO2_HIGH == 2000
NH3_HIGH == 15
BENZENE_HIGH == 5
ALCOHOL_HIGH == 10

NoPpm == [c \in Gases |-> None]

\* x or 0
OrZero(o) == IF IsNone(o) THEN 0 ELSE Val(o)

_summarize(last) ==
    LET pred == extract_top_detection(last.vision)
        gas  == IF IsNone(last.gas) THEN NoPpm ELSE Val(last.gas).ppm
        co2_hi == ~IsNone(gas.co2) /\ Val(gas.co2) >= 10 * CO2_HIGH
        nh3_hi == ~IsNone(gas.nh3) /\ Val(gas.nh3) >= 10 * NH3_HIGH
        voc_hi == \/ OrZero(gas.benzene) >= 10 * BENZENE_HIGH
                  \/ OrZero(gas.alcohol) >= 10 * ALCOHOL_HIGH
        model_rotten == pred.k = "pred" /\ Contains(Lower(pred.label), ROTTEN)
        spoiled == model_rotten \/ co2_hi \/ nh3_hi \/ voc_hi
    IN  IF pred = Raised THEN Raised
        ELSE [k |-> "summary",
              vision |-> pred,
              gas_ppm |-> gas,
              gas_flags |-> [co2_high |-> co2_hi, nh3_high |-> nh3_hi, voc_high |-> voc_hi],
              decision |-> IF spoiled THEN "SPOILED" ELSE "FRESH"]

(***************************************************************************)
(* Time.  The clock now counts half days since process start.              *)
(* datetime.isoformat() drops the fraction when it is zero, so a whole day *)
(* d prints as <<d>> and d + 1/2 as <<d, 5>>; SQLite compares the ts TEXT  *)
(* column as strings, here lexicographically on these sequences.           *)
(***************************************************************************)
isoformat(k) == IF k % 2 = 0 THEN <<k \div 2>> ELSE <<k \div 2, 5>>

RECURSIVE StrLess(_, _)
StrLess(a, b) ==
    IF b = <<>> THEN FALSE
    ELSE IF a = <<>> THEN TRUE
    ELSE IF a[1] # b[1] THEN a[1] < b[1]
    ELSE StrLess(Tail(a), Tail(b))

StrLeq(a, b) == a = b \/ StrLess(a, b)

\* now - timedelta(days=days)
DaysBefore(k, days) == k - 2 * days

VARIABLES
    LAST,      \* the in-memory cache (lines 34-39)
    db,        \* table gas_readings, in rowid order (lines 47-53)
    now,       \* datetime.utcnow()
    pc,        \* per request-handling thread: the line it is about to run
    loc,       \* per thread: the handler's local variables
    resp,      \* the response the last step returned, None if it returned none
    pre,       \* per thread: LAST and db as they were when its call began
    ingested,  \* what the most recently completed successful ingestions carried
    saved,     \* the readings of the completed save_reading calls, in order
    summarized \* what the last /summary call returned, None once an
               \* ingestion has written LAST since

vars == <<LAST, db, now, pc, loc, resp, pre, ingested, saved, summarized>>

Threads == {1, 2}

Idle == [op |-> "idle"]

Init ==
    /\ LAST = [vision |-> None, vision_updated |-> None, gas |-> None, gas_updated |-> None]
    /\ db = <<>>
    /\ now = 0
    /\ pc = [t \in Threads |-> "idle"]
    /\ loc = [t \in Threads |-> Idle]
    /\ resp = None
    /\ pre = [t \in Threads |-> None]
    /\ ingested = [gas |-> None, vision |-> None]
    /\ saved = <<>>
    /\ summarized = None

\* a handler starts: remember the state it found.  "As it was before the
\* call" means something only while T, the threads serving requests, is one
\* thread; with more the state is not recorded.
Begin(t, T) == pre' = IF T = {t} THEN [pre EXCEPT ![t] = Some([LAST |-> LAST, db |-> db])]
                      ELSE pre
\* a handler returns body in answer to request req
Return(t, op, req, body) ==
    /\ resp' = Some([t |-> t, op |-> op, req |-> req, body |-> body])
    /\ pc' = [pc EXCEPT ![t] = "idle"]
    /\ loc' = [loc EXCEPT ![t] = Idle]
    /\ pre' = [pre EXCEPT ![t] = None]
\* a handler moves on to line l with locals v
Goto(t, l, v) ==
    /\ resp' = None
    /\ pc' = [pc EXCEPT ![t] = l]
    /\ loc' = [loc EXCEPT ![t] = v]

\* rows a started save_reading will still insert
Pending == Cardinality({t \in Threads : pc[t] \in {"gas_199", "save_63", "save_61"}})

(***************************************************************************)
(* save_reading (lines 58-68): the clock is read while the arguments are   *)
(* built (line 63), the INSERT commits afterwards or fails.                *)
(***************************************************************************)
NextId == Len(db) + 1

ReadingRow(id, ts, ppm) == [id |-> id, ts |-> ts, ppm |-> ppm]

save_reading_63(t) ==
    /\ pc[t] = "save_63"
    /\ Goto(t, "save_61", [loc[t] EXCEPT !.ts = isoformat(now)])
    /\ UNCHANGED <<LAST, db, now, pre, ingested, saved, summarized>>

\* an INSERT OR REPLACE keyed on the newest row: the last record is overwritten
Insert_overwrite(ts, ppm) ==
    IF db = <<>> THEN Append(db, ReadingRow(NextId, ts, ppm))
    ELSE [db EXCEPT ![Len(db)] = ReadingRow(Len(db), ts, ppm)]

\* an INSERT that writes the row twice
Insert_twice(ts, ppm) ==
    Append(Append(db, ReadingRow(NextId, ts, ppm)), ReadingRow(NextId + 1, ts, ppm))

\* the INSERT of lines 61-67, committed
Insert(ts, ppm) == Append(db, ReadingRow(NextId, ts, ppm))

save_reading_61(t) ==
    /\ pc[t] = "save_61"
    /\ db' = Insert(loc[t].ts, loc[t].ppm)
    /\ saved' = Append(saved, loc[t].ppm)
    /\ IF loc[t].op = "gas"
       THEN /\ Return(t, "gas", Some(loc[t].g), [ok |-> TRUE, ppm |-> loc[t].ppm])     \* line 201
            /\ ingested' = [ingested EXCEPT !.gas = Some(loc[t].ppm)]
       ELSE /\ Goto(t, "cron_208", loc[t])
            /\ UNCHANGED <<pre, ingested>>
    /\ UNCHANGED <<LAST, now, summarized>>

\* sqlite3 raises (locked database, I/O error): nothing is written
save_reading_fails(t) ==
    /\ pc[t] = "save_61"
    /\ Return(t, loc[t].op, IF loc[t].op = "gas" THEN Some(loc[t].g) ELSE None,
              [error |-> "StorageFailure"])
    /\ UNCHANGED <<LAST, db, now, ingested, saved, summarized>>

(***************************************************************************)
(* load_history_last_days (lines 70-85)                                    *)
(***************************************************************************)
\* ORDER BY ts DESC
RECURSIVE OrderByTs_desc(_)
OrderByTs_desc(S) ==
    IF S = {} THEN <<>>
    ELSE LET first == CHOOSE r \in S : \A q \in S :
                         \/ StrLess(q.ts, r.ts)
                         \/ r.ts = q.ts /\ r.id <= q.id
         IN  <<first>> \o OrderByTs_desc(S \ {first})

\* ORDER BY ts ASC over the rows in S; rows of equal ts come in rowid
\* order, as SQLite's scan of idx_gas_ts and its sorter both deliver them
RECURSIVE OrderByTs(_)
OrderByTs(S) ==
    IF S = {} THEN <<>>
    ELSE LET first == CHOOSE r \in S : \A q \in S :
                         \/ StrLess(r.ts, q.ts)
                         \/ r.ts = q.ts /\ r.id <= q.id
         IN  <<first>> \o OrderByTs(S \ {first})

\* WHERE ts > cutoff
SinceCutoff_strict(cutoff) == {db[i] : i \in {j \in 1..Len(db) : StrLess(cutoff, db[j].ts)}}

\* WHERE ts >= cutoff
SinceCutoff(cutoff) == {db[i] : i \in {j \in 1..Len(db) : StrLeq(cutoff, db[j].ts)}}

load_history_last_days(days) ==
    LET cutoff == isoformat(DaysBefore(now, days))
        rows == OrderByTs(SinceCutoff(cutoff))
    IN  [i \in 1..Len(rows) |-> [time |-> rows[i].ts, ppm |-> rows[i].ppm]]

(***************************************************************************)
(* Inputs                                                                  *)
(***************************************************************************)
\* a /gas body: the given fields over the declared defaults
Body(f) == [x \in DOMAIN GasReading |-> IF x \in DOMAIN f THEN f[x] ELSE GasReading[x]]

G_none     == GasReading
G_r0_only  == Body([r0 |-> Some(Dec(1, 0))])
G_rs1      == Body([rs |-> Some(Dec(1, 0))])
G_rs4_r01  == Body([rs |-> Some(Dec(4, 0)), r0 |-> Some(Dec(1, 0))])
G_rs1_r04  == Body([rs |-> Some(Dec(1, 0)), r0 |-> Some(Dec(4, 0))])
G_rs3_r01  == Body([rs |-> Some(Dec(3, 0)), r0 |-> Some(Dec(1, 0))])
G_rs0      == Body([rs |-> Some(Zero)])
G_rsneg    == Body([rs |-> Some(Dec(-1, 0))])
G_rssmall  == Body([rs |-> Some(Dec(5, -7))])
G_rstiny   == Body([rs |-> Some(Dec(1, -100)), r0 |-> Some(Dec(1, 0))])
G_vrl      == Body([vrl |-> Some(Dec(165, -2))])
G_vrl_r0   == Body([vrl |-> Some(Dec(165, -2)), r0 |-> Some(Dec(25, 2))])
G_adc      == Body([adc |-> Some(2), adc_max |-> Some(4)])
G_vrl_adc  == Body([vrl |-> Some(Dec(165, -2)), adc |-> Some(4095)])
G_rs_vrl   == Body([rs |-> Some(Dec(4, 0)), r0 |-> Some(Dec(1, 0)), vrl |-> Some(Dec(33, -1))])
G_rs_adc   == Body([rs |-> Some(Dec(4, 0)), r0 |-> Some(Dec(1, 0)), adc |-> Some(2), adc_max |-> Some(4)])
G_adc_full == Body([adc |-> Some(4095), adc_max |-> Some(0)])
G_vrl_over == Body([vrl |-> Some(Dec(44, -1))])
G_vrl_zero == Body([vrl |-> Some(Zero)])
G_adc_zero == Body([adc |-> Some(0), adc_max |-> None])
G_nulls    == Body([vrl |-> Some(Dec(165, -2)), vref |-> None, rl |-> Some(Zero)])

GasBodies == {G_none, G_r0_only, G_rs1, G_rs4_r01, G_rs1_r04, G_rs3_r01, G_rs0, G_rsneg,
              G_rssmall, G_rstiny, G_vrl, G_vrl_r0, G_adc, G_vrl_adc, G_rs_vrl, G_rs_adc,
              G_adc_full, G_vrl_over, G_vrl_zero, G_adc_zero, G_nulls}

FRESH  == <<"F", "r", "e", "s", "h">>
ROTTEN_MIXED == <<"R", "o", "T", "T", "e", "n", "A">>

Pred(class, n) == JObj([class |-> JStr(class), confidence |-> JNum(n)])
Detections(items) == JObj([predictions |-> JList(items), time |-> JNum(1)])

J_rotten_top  == Detections(<<Pred(FRESH, 3000), Pred(ROTTEN_MIXED, 9000), Pred(FRESH, 5000)>>)
J_fresh_top   == Detections(<<Pred(ROTTEN_MIXED, 3012), Pred(FRESH, 7618)>>)
J_tie         == Detections(<<Pred(FRESH, 9000), Pred(ROTTEN_MIXED, 9000)>>)
J_no_conf     == Detections(<<JObj([class |-> JStr(ROTTEN_MIXED)]), Pred(FRESH, 0)>>)
J_neg_conf    == Detections(<<Pred(ROTTEN_MIXED, -5000), JObj([class |-> JStr(FRESH)])>>)
J_no_class    == Detections(<<JObj([confidence |-> JNum(5000)])>>)
J_str_conf    == Detections(<<Pred(FRESH, 1000),
                              JObj([class |-> JStr(ROTTEN_MIXED),
                                    confidence |-> JStr(<<"0", ".", "9">>)])>>)
J_empty       == Detections(<<>>)
J_no_preds    == JObj([time |-> JNum(1)])
J_null_preds  == JObj([predictions |-> JNull])
J_str_preds   == JObj([predictions |-> JStr(<<"a", "b">>)])
J_list        == JList(<<JNum(1)>>)
J_number      == JNum(5)
J_entry_num   == Detections(<<JNum(5)>>)
J_null_conf   == Detections(<<JObj([class |-> JStr(FRESH), confidence |-> JNull])>>)
J_text_conf   == Detections(<<Pred(FRESH, 9000),
                              JObj([class |-> JStr(FRESH), confidence |-> JStr(<<"h", "i">>)])>>)

WellFormed == {J_rotten_top, J_fresh_top, J_tie, J_no_conf, J_neg_conf, J_no_class,
               J_str_conf, J_empty, J_no_preds}
Malformed == {J_null_preds, J_str_preds, J_list, J_number, J_entry_num, J_null_conf,
              J_text_conf}
Payloads == WellFormed \cup Malformed

\* lines 171-196 for each offered body, computed once
Converted == [g \in GasBodies |-> Convert(g)]

(***************************************************************************)
(* /predict (lines 108-148).  The detector's answer is an input: a failure *)
(* (403, request error, a body that is not JSON) or a JSON value j.        *)
(***************************************************************************)
DetectorErrors == {"roboflow_403", "roboflow_request_failed", "roboflow_non_json"}

predict_fails(t, err) ==
    /\ pc[t] = "idle"
    /\ Return(t, "predict", None, [error |-> err])
    /\ UNCHANGED <<LAST, db, now, ingested, saved, summarized>>

predict_146(t, T, j) ==
    /\ pc[t] = "idle"
    /\ LAST' = [LAST EXCEPT !.vision = Some(j)]
    /\ Begin(t, T)
    /\ Goto(t, "predict_147", [op |-> "predict", j |-> j])
    /\ summarized' = None
    /\ UNCHANGED <<db, now, ingested, saved>>

predict_147(t) ==
    /\ pc[t] = "predict_147"
    /\ LAST' = [LAST EXCEPT !.vision_updated = Some(isoformat(now))]
    /\ Return(t, "predict", None, [j |-> loc[t].j])
    /\ ingested' = [ingested EXCEPT !.vision = Some(loc[t].j)]
    /\ summarized' = None
    /\ UNCHANGED <<db, now, saved>>

(***************************************************************************)
(* /gas (lines 165-201)                                                    *)
(***************************************************************************)
\* line 179
gas_rejects(t, g) ==
    /\ pc[t] = "idle"
    /\ Converted[g].k = "invalid"
    /\ Return(t, "gas", Some(g), [error |-> "InvalidInput"])
    /\ UNCHANGED <<LAST, db, now, ingested, saved, summarized>>

\* OverflowError out of lines 191-194
gas_overflows(t, g) ==
    /\ pc[t] = "idle"
    /\ Converted[g].k = "overflow"
    /\ Return(t, "gas", Some(g), [error |-> "OverflowError"])
    /\ UNCHANGED <<LAST, db, now, ingested, saved, summarized>>

\* lines 171-198
gas_198(t, T, g, rows) ==
    /\ pc[t] = "idle"
    /\ Len(db) + Pending < rows
    /\ Converted[g].k = "ok"
    /\ LAST' = [LAST EXCEPT !.gas = Some([ppm |-> Converted[g].ppm])]
    /\ Begin(t, T)
    /\ Goto(t, "gas_199", [op |-> "gas", g |-> g, rs |-> Converted[g].rs,
                           r0 |-> Converted[g].r0, ratio |-> Converted[g].ratio,
                           ppm |-> Converted[g].ppm, ts |-> None])
    /\ summarized' = None
    /\ UNCHANGED <<db, now, ingested, saved>>

\* a /gas that stamps the wrong field with the time
gas_199_vision_clock(t) ==
    /\ pc[t] = "gas_199"
    /\ LAST' = [LAST EXCEPT !.vision_updated = Some(isoformat(now))]
    /\ Goto(t, "save_63", loc[t])
    /\ summarized' = None
    /\ UNCHANGED <<db, now, pre, ingested, saved>>

\* line 199, then the call of line 200
gas_199(t) ==
    /\ pc[t] = "gas_199"
    /\ LAST' = [LAST EXCEPT !.gas_updated = Some(isoformat(now))]
    /\ Goto(t, "save_63", loc[t])
    /\ summarized' = None
    /\ UNCHANGED <<db, now, pre, ingested, saved>>

(***************************************************************************)
(* /cron/snapshot (lines 203-208)                                          *)
(***************************************************************************)
cron_206(t) ==
    /\ pc[t] = "idle"
    /\ IsNone(LAST.gas)
    /\ Return(t, "cron", None, [ok |-> FALSE, error |-> "No gas reading to snapshot yet."])
    /\ UNCHANGED <<LAST, db, now, ingested, saved, summarized>>

cron_207(t, T, rows) ==
    /\ pc[t] = "idle"
    /\ Len(db) + Pending < rows
    /\ ~IsNone(LAST.gas)
    /\ Begin(t, T)
    /\ Goto(t, "save_63", [op |-> "cron", ppm |-> Val(LAST.gas).ppm, ts |-> None])
    /\ UNCHANGED <<LAST, db, now, ingested, saved, summarized>>

cron_208(t) ==
    /\ pc[t] = "cron_208"
    /\ Return(t, "cron", None, [ok |-> TRUE, saved |-> Val(LAST.gas).ppm])
    /\ UNCHANGED <<LAST, db, now, ingested, saved, summarized>>

(***************************************************************************)
(* /history, /export.csv, /summary (lines 210-212, 240-259)                *)
(***************************************************************************)
HISTORY_DAYS == 2

history(t) ==
    /\ pc[t] = "idle"
    /\ Return(t, "history", None, [history |-> load_history_last_days(HISTORY_DAYS)])
    /\ UNCHANGED <<LAST, db, now, ingested, saved, summarized>>

CSV_HEADER == <<"timestamp_utc", "co2_ppm", "nh3_ppm", "benzene_ppm", "alcohol_eq">>

CsvRow(r) == <<r.time, r.ppm.co2, r.ppm.nh3, r.ppm.benzene, r.ppm.alcohol>>

export_csv(t) ==
    /\ pc[t] = "idle"
    /\ LET rows == load_history_last_days(HISTORY_DAYS)
       IN  Return(t, "export_csv", None,
                  [header |-> CSV_HEADER, rows |-> [i \in 1..Len(rows) |-> CsvRow(rows[i])]])
    /\ UNCHANGED <<LAST, db, now, ingested, saved, summarized>>

\* line 216: last.get("vision") is read and extracted first
summary_216(t) ==
    /\ pc[t] = "idle"
    /\ IF extract_top_detection(LAST.vision) = Raised
       THEN /\ Return(t, "summary", None, Raised)
            /\ summarized' = Some(Raised)
       ELSE /\ Goto(t, "summary_218", [op |-> "summary", vision |-> LAST.vision])
            /\ UNCHANGED <<pre, summarized>>
    /\ UNCHANGED <<LAST, db, now, ingested, saved>>

\* a summary that consumes the detection it reports
summary_218_consuming(t) ==
    /\ pc[t] = "summary_218"
    /\ LET result == _summarize([vision |-> loc[t].vision, gas |-> LAST.gas])
       IN  Return(t, "summary", None, result) /\ summarized' = Some(result)
    /\ LAST' = [LAST EXCEPT !.vision = None]
    /\ UNCHANGED <<db, now, ingested, saved>>

\* lines 218-238: last.get("gas") is read, the summary returned
summary_218(t) ==
    /\ pc[t] = "summary_218"
    /\ LET result == _summarize([vision |-> loc[t].vision, gas |-> LAST.gas])
       IN  Return(t, "summary", None, result) /\ summarized' = Some(result)
    /\ UNCHANGED <<LAST, db, now, ingested, saved>>

\* time passes
Tick(maxClock) ==
    /\ now < maxClock
    /\ now' = now + 1
    /\ resp' = None
    /\ UNCHANGED <<LAST, db, pc, loc, pre, ingested, saved, summarized>>

(***************************************************************************)
(* Specifications.  T: the threads that serve requests; G, J: the /gas     *)
(* bodies and detector answers offered; rows: the cap on the table size;   *)
(* clock: the cap on the clock where time passes.                          *)
(***************************************************************************)
\* the handlers that write LAST or the table, and the summary
Next(T, G, J, rows) ==
    \/ \E t \in T, j \in J : predict_146(t, T, j)
    \/ \E t \in T : predict_147(t)
    \/ \E t \in T, g \in G : gas_198(t, T, g, rows)
    \/ \E t \in T : gas_199(t)
    \/ \E t \in T : save_reading_63(t)
    \/ \E t \in T : save_reading_61(t)
    \/ \E t \in T : save_reading_fails(t)
    \/ \E t \in T : cron_206(t)
    \/ \E t \in T : cron_207(t, T, rows)
    \/ \E t \in T : cron_208(t)
    \/ \E t \in T : summary_216(t)
    \/ \E t \in T : summary_218(t)

ConcRows == 2
ConcBodies == {G_rs1, G_rs4_r01}
ConcPayloads == {J_rotten_top, J_fresh_top}

\* two request-handling threads, any interleaving of their steps
Spec == Init /\ [][Next(Threads, ConcBodies, ConcPayloads, ConcRows)]_vars

\* the handlers that write or read the table, and the clock
NextStore(T, G, rows, clock) ==
    \/ \E t \in T, g \in G : gas_rejects(t, g)
    \/ \E t \in T, g \in G : gas_198(t, T, g, rows)
    \/ \E t \in T : gas_199(t)
    \/ \E t \in T : save_reading_63(t)
    \/ \E t \in T : save_reading_61(t)
    \/ \E t \in T : save_reading_fails(t)
    \/ \E t \in T : cron_206(t)
    \/ \E t \in T : cron_207(t, T, rows)
    \/ \E t \in T : cron_208(t)
    \/ \E t \in T : history(t)
    \/ \E t \in T : export_csv(t)
    \/ Tick(clock)

StoreRows == 2
StoreClock == 5
StoreBodies == {G_none, G_rs1, G_rs4_r01}

\* one request at a time, against the table
SpecStore == Init /\ [][NextStore({1}, StoreBodies, StoreRows, StoreClock)]_vars

\* the two ingestion paths and the summary
NextIngest(T, G, J, rows) ==
    \/ \E t \in T, err \in DetectorErrors : predict_fails(t, err)
    \/ \E t \in T, j \in J : predict_146(t, T, j)
    \/ \E t \in T : predict_147(t)
    \/ \E t \in T, g \in G : gas_rejects(t, g)
    \/ \E t \in T, g \in G : gas_overflows(t, g)
    \/ \E t \in T, g \in G : gas_198(t, T, g, rows)
    \/ \E t \in T : gas_199(t)
    \/ \E t \in T : save_reading_63(t)
    \/ \E t \in T : save_reading_61(t)
    \/ \E t \in T : save_reading_fails(t)
    \/ \E t \in T : summary_216(t)
    \/ \E t \in T : summary_218(t)

IngestRows == 1

\* one request at a time, every input
SpecIngest == Init /\ [][NextIngest({1}, GasBodies, Payloads, IngestRows)]_vars

\* LAST["gas"]["ppm"] values on either side of each threshold, and absent
GasGrid ==
    {Some([ppm |-> [co2 |-> a, nh3 |-> b, benzene |-> c, alcohol |-> d]]) :
        a \in {None, Some(19999), Some(20000)}, b \in {None, Some(149), Some(150)},
        c \in {None, Some(0), Some(49), Some(50)}, d \in {None, Some(99), Some(100)}}

\* _summarize as a function of its argument: any detector payload, any
\* concentrations
InitSnapshots ==
    /\ LAST \in [vision : {None} \cup {Some(j) : j \in Payloads},
                 vision_updated : {None},
                 gas : {None} \cup GasGrid,
                 gas_updated : {None}]
    /\ db = <<>>
    /\ now = 0
    /\ pc = [t \in Threads |-> "idle"]
    /\ loc = [t \in Threads |-> Idle]
    /\ resp = None
    /\ pre = [t \in Threads |-> None]
    /\ ingested = [gas |-> None, vision |-> None]
    /\ saved = <<>>
    /\ summarized = None

NextSummary(T) ==
    \/ \E t \in T : summary_216(t)
    \/ \E t \in T : summary_218(t)

SpecSummarize == InitSnapshots /\ [][NextSummary({1})]_vars

\* the ingestions and the three reading routes
NextRead(T, G, J, rows) ==
    \/ \E t \in T, j \in J : predict_146(t, T, j)
    \/ \E t \in T : predict_147(t)
    \/ \E t \in T, g \in G : gas_198(t, T, g, rows)
    \/ \E t \in T : gas_199(t)
    \/ \E t \in T : save_reading_63(t)
    \/ \E t \in T : save_reading_61(t)
    \/ \E t \in T : save_reading_fails(t)
    \/ \E t \in T : summary_216(t)
    \/ \E t \in T : summary_218(t)
    \/ \E t \in T : history(t)
    \/ \E t \in T : export_csv(t)

ReadRows == 2
ReadPayloads == {J_rotten_top, J_fresh_top, J_number}

\* one request at a time, reads between ingestions
SpecRead == Init /\ [][NextRead({1}, ConcBodies, ReadPayloads, ReadRows)]_vars

(***************************************************************************)
(* Properties                                                              *)
(***************************************************************************)
\* the thread-t response of kind op that the last step returned, if any
IsResp(op) == ~IsNone(resp) /\ Val(resp).op = op
Failed(body) == "error" \in DOMAIN body /\ "ok" \notin DOMAIN body

\* ---- C1 ----------------------------------------------------------------
C1_SameLetter(c, lower) == c = lower \/ (c \in DOMAIN UpperToLower /\ UpperToLower[c] = lower)

\* the label spells "rotten" somewhere, in any mix of cases
C1_MentionsRotten(label) ==
    \E i \in 1..(Len(label) - 5) : \A k \in 1..6 : C1_SameLetter(label[i + k - 1], ROTTEN[k])

\* the concentration of gas c is present and at least limit tenths of a ppm
C1_AtLeast(c, limit) ==
    /\ ~IsNone(LAST.gas)
    /\ ~IsNone(Val(LAST.gas).ppm[c])
    /\ Val(Val(LAST.gas).ppm[c]) >= limit

\* C1: every summary /summary returns for the snapshot LAST carries the
\* flags co2_high = (co2 present and >= 2000 ppm), nh3_high = (nh3 present
\* and >= 15 ppm), voc_high = (benzene >= 5 ppm or alcohol >= 10 ppm, an
\* absent value counting as not high), and its decision is "SPOILED" exactly
\* when the top detection's label contains "rotten" in any letter case
\* (whatever its confidence) or one of the flags is set, "FRESH" otherwise.
\* The summary is returned whenever the extraction of the top detection
\* does not raise.
C1_DecisionAndFlags ==
    IsResp("summary") =>
        LET body == Val(resp).body
            top == extract_top_detection(LAST.vision)
            rotten == top.k = "pred" /\ C1_MentionsRotten(top.label)
            co2 == C1_AtLeast("co2", 20000)
            nh3 == C1_AtLeast("nh3", 150)
            voc == C1_AtLeast("benzene", 50) \/ C1_AtLeast("alcohol", 100)
        IN  IF top = Raised THEN body = Raised
            ELSE /\ body.k = "summary"
                 /\ body.gas_flags = [co2_high |-> co2, nh3_high |-> nh3, voc_high |-> voc]
                 /\ body.decision = IF rotten \/ co2 \/ nh3 \/ voc THEN "SPOILED" ELSE "FRESH"

\* a summary that is SPOILED on the label alone: mixed-case "RoTTenA" at
\* confidence 0.0 and no gas flag set
C1_Witness ==
    /\ IsResp("summary")
    /\ LAST.vision = Some(J_no_conf)
    /\ Val(resp).body.k = "summary"
    /\ Val(resp).body.vision.confidence = 0
    /\ Val(resp).body.gas_flags = [co2_high |-> FALSE, nh3_high |-> FALSE, voc_high |-> FALSE]
    /\ Val(resp).body.decision = "SPOILED"

\* ---- C2 ----------------------------------------------------------------
\* LAST and the table as thread t's running call found them
AtCallStart(t) == IF IsNone(pre[t]) THEN [LAST |-> LAST, db |-> db] ELSE Val(pre[t])

\* C2: whenever a /gas or /predict call returns a failure (rejected input,
\* a failure inside save_reading, a failed detector call), LAST and the
\* table are exactly as they were when the call began.
C2_FailedIngestionChangesNothing ==
    [][\A t \in Threads :
          (/\ ~IsNone(resp')
           /\ Val(resp').t = t
           /\ Val(resp').op \in {"gas", "predict"}
           /\ Failed(Val(resp').body))
          => (LAST' = AtCallStart(t).LAST /\ db' = AtCallStart(t).db)]_vars

\* ---- C3 ----------------------------------------------------------------
\* C3: every summary returned carries the concentrations of the most
\* recently completed successful /gas call (none before the first) and the
\* top detection of the most recently completed successful /predict call.
C3_SummaryReflectsCompleted ==
    (IsResp("summary") /\ Val(resp).body.k = "summary") =>
        /\ Val(resp).body.gas_ppm = (IF IsNone(ingested.gas) THEN NoPpm ELSE Val(ingested.gas))
        /\ Val(resp).body.vision = extract_top_detection(ingested.vision)

\* ---- C4 ----------------------------------------------------------------
\* C4: a /cron/snapshot call that returns ok has appended exactly one row to
\* the table it found, carrying the concentrations of LAST["gas"], and left
\* LAST alone; a call made while LAST["gas"] is absent returns an error and
\* changes neither; a call whose INSERT fails appends nothing.
C4_SnapshotAppendsOne ==
    [][\A t \in Threads :
          (~IsNone(resp') /\ Val(resp').t = t /\ Val(resp').op = "cron") =>
              LET body == Val(resp').body
                  was == AtCallStart(t)
              IN  /\ LAST' = was.LAST
                  /\ IF Failed(body) THEN db' = was.db
                     ELSE IF body.ok
                     THEN /\ ~IsNone(was.LAST.gas)
                          /\ Len(db') = Len(was.db) + 1
                          /\ SubSeq(db', 1, Len(was.db)) = was.db
                          /\ db'[Len(db')].ppm = Val(was.LAST.gas).ppm
                          /\ body.saved = Val(was.LAST.gas).ppm
                     ELSE /\ IsNone(was.LAST.gas)
                          /\ db' = was.db]_vars

\* a snapshot has returned ok with the reading of an earlier /gas call
C4_Witness ==
    /\ IsResp("cron")
    /\ ~Failed(Val(resp).body)
    /\ Val(resp).body.ok
    /\ Len(db) = 2
    /\ db[2].ppm = Val(LAST.gas).ppm

\* ---- C5 ----------------------------------------------------------------
\* the instant a stored timestamp denotes, in half days
C5_Instant(ts) == IF Len(ts) = 1 THEN 2 * ts[1] ELSE 2 * ts[1] + 1

\* h holds exactly the rows of the table not older than 2 days
C5_ExactlyTheWindow(h) ==
    LET inWindow == {i \in 1..Len(db) : C5_Instant(db[i].ts) >= now - 2 * 2}
    IN  \E f \in [1..Len(h) -> inWindow] :
            /\ \A i \in inWindow : \E k \in 1..Len(h) : f[k] = i
            /\ \A k, l \in 1..Len(h) : f[k] = f[l] => k = l
            /\ \A k \in 1..Len(h) : h[k] = [time |-> db[f[k]].ts, ppm |-> db[f[k]].ppm]

\* C5 as the specification words it: /history returns exactly the stored
\* records whose timestamp is at or after now minus 2 days, each timestamp
\* strictly earlier than the next one's.
C5_HistoryStrictlyAscending ==
    IsResp("history") =>
        LET h == Val(resp).body.history
        IN  /\ C5_ExactlyTheWindow(h)
            /\ \A k \in 1..(Len(h) - 1) : C5_Instant(h[k].time) < C5_Instant(h[k + 1].time)

\* C5: /history returns exactly the stored records whose timestamp is at or
\* after now minus 2 days, no timestamp later than the next one's (records
\* written at the same instant share a timestamp).
C5_HistoryAscending ==
    IsResp("history") =>
        LET h == Val(resp).body.history
        IN  /\ C5_ExactlyTheWindow(h)
            /\ \A k \in 1..(Len(h) - 1) : C5_Instant(h[k].time) <= C5_Instant(h[k + 1].time)

\* a history with one row returned and an older one left out
C5_Witness ==
    /\ IsResp("history")
    /\ Len(db) = 2
    /\ Len(Val(resp).body.history) = 1
    /\ Val(resp).body.history[1].time = db[2].ts

C7_Documented(j) ==
    /\ j.k = "obj"
    /\ ("predictions" \in DOMAIN j.f /\ j.f.predictions.k = "list") =>
           \A i \in 1..Len(j.f.predictions.items) :
               LET p == j.f.predictions.items[i]
               IN  /\ p.k = "obj"
                   /\ "confidence" \in DOMAIN p.f => p.f.confidence.k = "num"

C7_HasList(j) ==
    /\ "predictions" \in DOMAIN j.f
    /\ j.f.predictions.k = "list"
    /\ j.f.predictions.items # <<>>

\* an entry's confidence in units of 1e-4, 0.0 when it has none
C7_Confidence(p) == IF "confidence" \in DOMAIN p.f THEN p.f.confidence.n ELSE 0

\* C7: for a payload of the documented shape, the top detection a summary
\* reports is absent when the payload has no predictions list or an empty
\* one; otherwise it is the entry of maximal confidence, an entry without
\* confidence counting as 0.0 and the earliest entry winning a tie: its
\* class as the label and its confidence as a percentage to one decimal.
C7_TopDetection ==
    (IsResp("summary") /\ (IsNone(LAST.vision) \/ C7_Documented(Val(LAST.vision)))) =>
        LET body == Val(resp).body
        IN  /\ body.k = "summary"
            /\ IF IsNone(LAST.vision) \/ ~C7_HasList(Val(LAST.vision))
               THEN body.vision = NoDetection
               ELSE LET items == Val(LAST.vision).f.predictions.items
                    IN  \E i \in 1..Len(items) :
                            /\ \A j \in 1..Len(items) :
                                   C7_Confidence(items[j]) <= C7_Confidence(items[i])
                            /\ \A j \in 1..(i - 1) :
                                   C7_Confidence(items[j]) < C7_Confidence(items[i])
                            /\ body.vision.k = "pred"
                            /\ "class" \in DOMAIN items[i].f =>
                                   body.vision.label = items[i].f.class.s
                            /\ Abs(10 * body.vision.confidence - C7_Confidence(items[i])) <= 5

\* two entries tie at 0.9 and the first one, "Fresh", is reported
C7_Witness ==
    /\ IsResp("summary")
    /\ LAST.vision = Some(J_tie)
    /\ Val(resp).body.k = "summary"
    /\ Val(resp).body.vision = [k |-> "pred", label |-> FRESH, confidence |-> 900]

\* ---- C8 ----------------------------------------------------------------
\* C8: when the stored detector payload lacks the expected predictions
\* structure (predictions missing its list, a bare list or number, an entry
\* that is no object, a confidence that is no number), /summary completes
\* and reports the vision result as absent.
C8_MalformedIsAbsent ==
    (IsResp("summary") /\ ~IsNone(LAST.vision) /\ Val(LAST.vision) \in Malformed) =>
        /\ Val(resp).body.k = "summary"
        /\ Val(resp).body.vision = NoDetection

\* ---- C9 ----------------------------------------------------------------
C9_Supplied(g) == ~IsNone(g.vrl) \/ ~IsNone(g.adc) \/ ~IsNone(g.rs)

\* the sensor resistance the request asks for: rs itself when supplied,
\* else what the voltage gives with the ADC count disregarded, else what
\* the ADC count gives
C9_Resistance(g) ==
    IF ~IsNone(g.rs) THEN Val(g.rs)
    ELSE IF ~IsNone(g.vrl) THEN SensorRs([g EXCEPT !.adc = None])
    ELSE SensorRs(g)

\* C9: a /gas request is turned down as invalid input exactly when it
\* supplies none of vrl, adc and rs; a request that passes goes on with
\* the supplied rs as the sensor resistance if there is one, else with the
\* resistance derived from the supplied vrl, and with the one derived from
\* the ADC count only when neither rs nor vrl is supplied.
C9_RejectedIffNothingSupplied ==
    /\ IsResp("gas") =>
          ((Failed(Val(resp).body) /\ Val(resp).body.error = "InvalidInput")
              <=> ~C9_Supplied(Val(Val(resp).req)))
    /\ \A t \in Threads : loc[t].op = "gas" =>
          /\ C9_Supplied(loc[t].g)
          /\ loc[t].rs = C9_Resistance(loc[t].g)

\* a request with both a voltage and an ADC count is being processed
C9_Witness ==
    \E t \in Threads : loc[t].op = "gas" /\ loc[t].g = G_vrl_adc /\ pc[t] = "save_61"

\* ---- C10 ---------------------------------------------------------------
\* C10: no concentration that /gas computes, caches in LAST or stores is
\* negative, and a request whose resistance ratio is zero or negative gets
\* 0 for all four gases.
C10_PpmNeverNegative ==
    LET NonNegative(ppm) == \A c \in Gases : ~IsNone(ppm[c]) /\ Val(ppm[c]) >= 0
    IN  /\ ~IsNone(LAST.gas) => NonNegative(Val(LAST.gas).ppm)
        /\ \A i \in 1..Len(db) : NonNegative(db[i].ppm)
        /\ \A t \in Threads : loc[t].op = "gas" =>
              /\ NonNegative(loc[t].ppm)
              /\ Leq(loc[t].ratio, Zero) => \A c \in Gases : loc[t].ppm[c] = Some(0)

\* a reading with a negative ratio has been stored as all zeros
C10_Witness ==
    /\ IsResp("gas")
    /\ Val(resp).req = Some(G_vrl_over)
    /\ Len(db) = 1
    /\ \A c \in Gases : db[1].ppm[c] = Some(0)

\* ---- C11 ---------------------------------------------------------------
\* C11: every /gas request that supplies no r0 and passes validation is
\* processed with a resistance ratio of exactly 1.0, whatever its sensor
\* resistance: zero, below the 1e-6 floor, or negative.
C11_RatioOneWithoutBaseline ==
    \A t \in Threads :
        (loc[t].op = "gas" /\ IsNone(loc[t].g.r0)) => loc[t].ratio = Dec(1, 0)

\* ---- C12 ---------------------------------------------------------------
\* C12: in every step of every interleaving of /gas and /cron/snapshot
\* calls, the table either stays as it is or gains exactly one row behind
\* the rows it had, whose id exceeds every id present before; a row is
\* gained exactly when a save_reading call completes, and it carries that
\* call's reading.  No row is ever changed or removed.
C12_AppendOnly ==
    [][/\ \/ db' = db
          \/ /\ Len(db') = Len(db) + 1
             /\ SubSeq(db', 1, Len(db)) = db
             /\ \A i \in 1..Len(db) : db[i].id < db'[Len(db')].id
       /\ \/ saved' = saved /\ db' = db
          \/ /\ Len(saved') = Len(saved) + 1
             /\ Len(db') = Len(db) + 1
             /\ db'[Len(db')].ppm = saved'[Len(saved')]]_vars

\* a /gas call has just stored its row while a snapshot begun by the other
\* thread is still on its way to the INSERT
C12_Witness ==
    /\ IsResp("gas")
    /\ ~Failed(Val(resp).body)
    /\ Len(db) = 1
    /\ \E t \in Threads : pc[t] = "save_61" /\ loc[t].op = "cron"

\* ---- C13 ---------------------------------------------------------------
\* C13: no step of a /summary, /history or /export.csv call changes a field
\* of LAST or the table, and a /summary call returns what the previous
\* /summary call returned whenever no ingestion has written LAST between
\* the two.
C13_ReadsChangeNothing ==
    [][\A t \in Threads :
          LET returns == ~IsNone(resp') /\ Val(resp').t = t
                         /\ Val(resp').op \in {"summary", "history", "export_csv"}
          IN  (returns \/ pc[t] = "summary_218" \/ pc'[t] = "summary_218") =>
                  /\ LAST' = LAST
                  /\ db' = db
                  /\ (returns /\ Val(resp').op = "summary" /\ ~IsNone(summarized)) =>
                         Val(resp').body = Val(summarized)]_vars

\* after a gas reading and a detection were ingested, a second /summary
\* call is under way with the first one's result still standing
C13_Witness ==
    /\ \E t \in Threads : pc[t] = "summary_218"
    /\ ~IsNone(summarized)
    /\ Val(summarized).k = "summary"
    /\ ~IsNone(LAST.gas)
    /\ ~IsNone(LAST.vision)
    /\ Len(db) >= 1

\* ---- C14 ---------------------------------------------------------------
\* thread t takes the step
C14_Acts(t) == IF IsNone(resp') THEN pc'[t] # pc[t] ELSE Val(resp').t = t

\* the handler thread t is in while it takes the step
C14_Handler(t) ==
    IF loc[t].op # "idle" THEN loc[t].op
    ELSE IF loc'[t].op # "idle" THEN loc'[t].op
    ELSE Val(resp').op

\* C14: in every interleaving, no step of a /gas or /cron/snapshot call
\* changes LAST["vision"] or LAST["vision_updated"], and no step of a
\* /predict call changes LAST["gas"], LAST["gas_updated"] or the table.
C14_DisjointFields ==
    [][\A t \in Threads : C14_Acts(t) =>
          /\ C14_Handler(t) \in {"gas", "cron"} =>
                 /\ LAST'.vision = LAST.vision
                 /\ LAST'.vision_updated = LAST.vision_updated
          /\ C14_Handler(t) = "predict" =>
                 /\ LAST'.gas = LAST.gas
                 /\ LAST'.gas_updated = LAST.gas_updated
                 /\ db' = db]_vars

\* a /predict call and a /gas call are both half way, each having written
\* its payload and not yet its time
C14_Witness ==
    \E t, u \in Threads :
        /\ pc[t] = "predict_147"
        /\ pc[u] = "gas_199"
        /\ LAST.vision = Some(loc[t].j)
        /\ LAST.gas = Some([ppm |-> loc[u].ppm])

\* ---- C15 ---------------------------------------------------------------
\* C15: whenever no /gas or /cron/snapshot call is in flight and at least
\* one /gas call has succeeded, the row of highest id holds the
\* concentrations of LAST["gas"] -- also after two /gas calls overlapped.
C15_LatestRowIsCached ==
    (/\ \A t \in Threads : loc[t].op \notin {"gas", "cron"}
     /\ ~IsNone(ingested.gas))
    => LET newest == CHOOSE r \in {db[i] : i \in 1..Len(db)} :
                         \A i \in 1..Len(db) : db[i].id <= r.id
       IN  newest.ppm = Val(LAST.gas).ppm

====
